---- MODULE Spec2Model ----
(***************************************************************************)
(* Model of demo/enterprise_ml_pipeline.py: the compliance validator with  *)
(* its audit trail, the notification chain and run_enterprise_pipeline;    *)
(* of execute_coverage_missions.py and of gif_demo/chat_with_shimmy.py.    *)
(*                                                                         *)
(* The specifications share the variables:                                 *)
(*   SpecValidator  client code calling EnterpriseComplianceChain.validate *)
(*                  directly with arbitrary records;                       *)
(*   Spec           sequential calls of run_enterprise_pipeline;           *)
(*   SpecConcurrent threads calling validate on the shared validator;      *)
(*   SpecMissions   one run of execute_coverage_missions.main;             *)
(*   SpecDemo       one run of chat_with_shimmy.run_demo.                  *)
(*                                                                         *)
(* Strings that the code inspects (error messages) are tuples of their     *)
(* characters; times are clock ticks, TicksPerSecond of them to a second.  *)
(*                                                                         *)
(* The chains of the SequentialChain are external calls that return or     *)
(* raise.  notify_success and notify_failure build their message and       *)
(* record the channel; the transport behind a configured channel is the    *)
(* channel collaborator, whose send may fail with a ChannelError.  Such a  *)
(* failure is raised where the dispatch stands in the source and then      *)
(* follows the try/except structure of run_enterprise_pipeline.            *)
(***************************************************************************)
EXTENDS Integers, Sequences, FiniteSets, TLC

VARIABLES
    standards,      \* compliance_validator.standards
    audit_trail,    \* compliance_validator.audit_trail
    now,            \* the clock datetime.utcnow() reads, in ticks
    data,           \* argument of the latest validate call (None before any)
    report,         \* value the latest validate call returned (None before any)
    slack_webhook,  \* notification_system.slack_webhook
    pagerduty_key,  \* notification_system.pagerduty_key
    pc,             \* where the current run_enterprise_pipeline call stands
    runs,           \* calls of run_enterprise_pipeline started so far
    stage,          \* index of the chain the SequentialChain is running
    pipeline_start_time,
    pipeline_input,
    pipeline_result,
    final_result,
    exc,            \* the exception caught at "except Exception as e"
    result,         \* value the latest call returned
    outcome,        \* "none" | "returned" | "raised": how the latest call ended
    dispatched,     \* channel dispatches of the latest call, in order
    trail_at_start, \* audit_trail when the latest call started
    failed_at,      \* what raised inside the latest call's try block:
                    \* [step |-> "none" | "stage" | "notify_success", stage |-> n]
    returned,       \* the reports the validate calls returned, in call order
    invoked,        \* indexes of the chains invoked in the latest call, in order
    notify_calls,   \* notify_success / notify_failure calls of the latest call
    sent,           \* messages handed to a channel transport (an HTTP request)
    thread_pc,      \* per thread calling validate: "ready" | "build" | "append" | "done"
    thread_data,    \* per thread: the record it passes to validate
    thread_result,  \* per thread: the local compliance_result of its call
    appended_by,    \* the threads whose append has run, in the order of the appends
    mission_exists, \* per index of missions: os.path.exists of the mission file
    main_pc,        \* execute_coverage_missions.main: "ready" | "loop" | "done" | "raised"
    mission_index,  \* index in missions of the loop variable mission
    successful,     \* main's counter of missions that returned 0
    failed,         \* main's counter of missions that returned non-zero
    events,         \* what main did, in order: [op |-> "skip" | "execute" | "report", mission |-> i]
    demo_pc,        \* run_demo: "ready" | "input" | "chat" | "exited"
    healthy,        \* value check_shimmy_health returned (FALSE before the call)
    entered,        \* input() has returned a line
    prompted,       \* input() has been called
    user_query,     \* the line input() returned
    http,           \* requests made to the server, in order
    printed,        \* what the chat attempt printed: "none" | "response" | "http error" | "unexpected error"
    exit_status     \* exit status of the demo process (-1 while it runs)

\* ------------------------------------------------------------------ bounds
MaxTrail == 2
MaxMissing == 1
MaxClock == 2
MaxRuns == 2
NumThreads == 2
NumMissions == 4
MaxInput == 3
TicksPerSecond == 2

\* ------------------------------------------------------- python primitives
None == "<None>"

\* Python truthiness of an optional string argument (None and "" are falsy).
Truthy(x) == x /= None /\ x /= ""

\* Python truthiness of an optional list argument; None and [] are both falsy
\* and both are written <<>> here.
TruthyList(x) == x /= <<>>

\* x in list
InList(x, list) == \E i \in 1..Len(list) : list[i] = x

\* key in dict
HasKey(dict, key) == key \in DOMAIN dict

\* dict.get(key, default)
Get(dict, key, default) == IF key \in DOMAIN dict THEN dict[key] ELSE default

\* str.lower() on the ASCII letters
UpperToLower ==
    [A |-> "a", B |-> "b", C |-> "c", D |-> "d", E |-> "e", F |-> "f", G |->
    "g", H |-> "h", I |-> "i", J |-> "j", K |-> "k", L |-> "l", M |-> "m", N
    |-> "n", O |-> "o", P |-> "p", Q |-> "q", R |-> "r", S |-> "s", T |->
    "t", U |-> "u", V |-> "v", W |-> "w", X |-> "x", Y |-> "y", Z |-> "z"]

LowerChar(c) == IF c \in DOMAIN UpperToLower THEN UpperToLower[c] ELSE c

\* s.lower(), s a string written as the tuple of its characters
StrLower(s) == [i \in 1..Len(s) |-> LowerChar(s[i])]

\* needle in hay
Contains(needle, hay) ==
    \E i \in 1..(Len(hay) - Len(needle) + 1) :
        SubSeq(hay, i, i + Len(needle) - 1) = needle

\* ------------------------------------------------- EnterpriseComplianceChain
DefaultStandards == <<"SOX", "GDPR", "HIPAA", "PCI_DSS">>

\* __init__: self.standards = standards or [...]
ComplianceInit(arg) == IF TruthyList(arg) THEN arg ELSE DefaultStandards

SoxFields == <<"data_classification", "access_controls", "audit_trail">>
GdprFields == <<"consent_status", "data_purpose", "retention_period">>
HipaaFields == <<"phi_classification", "encryption_status", "access_controls">>

\* all(field in data for field in fields)
AllPresent(fields, d) == \A i \in 1..Len(fields) : HasKey(d, fields[i])

validate_sox_compliance(d) == AllPresent(SoxFields, d)

\* Mutant: any() written for all()
validate_gdpr_compliance_any(d) == \E i \in 1..Len(GdprFields) : HasKey(d, GdprFields[i])

validate_gdpr_compliance(d) == AllPresent(GdprFields, d)

\* Mutant: a misspelt field name, which no record holds
validate_hipaa_compliance_typo(d) ==
    AllPresent(<<"phi_classification", "encryption_state", "access_controls">>, d)

validate_hipaa_compliance(d) == AllPresent(HipaaFields, d)

\* strftime('%Y%m%d_%H%M%S'): the clock reading cut to whole seconds
Strftime(t) == t \div TicksPerSecond

\* f"audit_{...}"
AuditId(t) == <<"audit", Strftime(t)>>

\* One "if S in self.standards: if check: result[key] = COMPLIANT else: append"
CheckStandard(cr, stds, name, ok, key, text) ==
    IF InList(name, stds)
    THEN IF ok
         THEN cr @@ (key :> "COMPLIANT")
         ELSE [cr EXCEPT !.violations = Append(@, text)]
    ELSE cr

\* validate(): the report built from the record; t1, t2 are the two clock reads
ComplianceResult(stds, d, t1, t2) ==
    LET r0 == [timestamp |-> t1,
               standards_checked |-> stds,
               compliance_status |-> "PASSED",
               violations |-> <<>>,
               audit_id |-> AuditId(t2)]
        r1 == CheckStandard(r0, stds, "SOX", validate_sox_compliance(d),
                            "sox_status", "SOX violation detected")
        r2 == CheckStandard(r1, stds, "GDPR", validate_gdpr_compliance(d),
                            "gdpr_status", "GDPR violation detected")
        r3 == CheckStandard(r2, stds, "HIPAA", validate_hipaa_compliance(d),
                            "hipaa_status", "HIPAA violation detected")
    IN  r3

\* ----------------------------------------------- EnterpriseNotificationChain
\* __init__: self.x = x or os.getenv(...)
NotificationInit(arg, env) == IF Truthy(arg) THEN arg ELSE env

\* notify_success: "if self.slack_webhook"
ShouldSlack(webhook) == Truthy(webhook)

\* notify_success: the Slack message text fields
SlackMessage(pr) ==
    [channel |-> "slack",
     processing_time |-> Get(pr, "processing_time", "N/A"),
     records_processed |-> Get(pr, "records_processed", "N/A"),
     compliance_status |-> Get(pr, "compliance_status", "UNKNOWN")]

\* notify_success: the value returned
notify_success(webhook, pr) ==
    [notifications_sent |-> IF ShouldSlack(webhook) THEN <<"slack">> ELSE <<>>,
     status |-> "success"]

\* Mutant: the severity test dropped from the paging condition
ShouldPage_AnySeverity(key, details) == Truthy(key)

\* notify_failure: "if self.pagerduty_key and error_details.get('severity') == 'critical'"
ShouldPage(key, details) == Truthy(key) /\ Get(details, "severity", None) = "critical"

\* notify_failure: the PagerDuty payload
PagerdutyPayload(key, details) ==
    [channel |-> "pagerduty",
     routing_key |-> key,
     event_action |-> "trigger",
     severity |-> "critical",
     custom_details |-> details]

\* notify_failure: the value returned
notify_failure(key, details) ==
    [notifications_sent |-> IF ShouldPage(key, details) THEN <<"pagerduty">> ELSE <<>>,
     status |-> "failure_notified"]

\* -------------------------------------------------- run_enterprise_pipeline
\* "Authentication token expired"
MsgAuthCapital ==
    <<"A", "u", "t", "h", "e", "n", "t", "i", "c", "a", "t", "i", "o", "n",
      " ", "t", "o", "k", "e", "n", " ", "e", "x", "p", "i", "r", "e", "d">>

\* "downstream timeout"
MsgTimeout ==
    <<"d", "o", "w", "n", "s", "t", "r", "e", "a", "m", " ", "t", "i", "m",
      "e", "o", "u", "t">>

\* "token expired"
MsgTokenExpired ==
    <<"t", "o", "k", "e", "n", " ", "e", "x", "p", "i", "r", "e", "d">>

\* "bad AUTHENTICATION header"
MsgAuthUpper ==
    <<"b", "a", "d", " ", "A", "U", "T", "H", "E", "N", "T", "I", "C", "A",
      "T", "I", "O", "N", " ", "h", "e", "a", "d", "e", "r">>

\* "authenticatio"
MsgAuthPrefix ==
    <<"a", "u", "t", "h", "e", "n", "t", "i", "c", "a", "t", "i", "o">>

\* "slack webhook unreachable"
MsgSlackDown ==
    <<"s", "l", "a", "c", "k", " ", "w", "e", "b", "h", "o", "o", "k", " ",
      "u", "n", "r", "e", "a", "c", "h", "a", "b", "l", "e">>

\* "pagerduty authentication rejected"
MsgPagerAuth ==
    <<"p", "a", "g", "e", "r", "d", "u", "t", "y", " ", "a", "u", "t", "h",
      "e", "n", "t", "i", "c", "a", "t", "i", "o", "n", " ", "r", "e", "j",
      "e", "c", "t", "e", "d">>

\* "authentication"
Needle ==
    <<"a", "u", "t", "h", "e", "n", "t", "i", "c", "a", "t", "i", "o", "n">>

\* str(e)
Str(e) == e.msg

\* Mutant: the message compared without lower()
Severity_CaseSensitive(e) == IF Contains(Needle, Str(e)) THEN "critical" ELSE "high"

\* "critical" if "authentication" in str(e).lower() else "high"
Severity(e) == IF Contains(Needle, StrLower(Str(e))) THEN "critical" ELSE "high"

\* The pipeline_input dict built at the start of the try block
PipelineInput(dataset_id, compliance_level, analysis_type, start) ==
    [dataset_id |-> dataset_id,
     compliance_level |-> compliance_level,
     analysis_type |-> analysis_type,
     execution_id |-> <<"exec", Strftime(start)>>,
     data_classification |-> "CONFIDENTIAL",
     access_controls |-> "RBAC_ENABLED",
     audit_trail |-> "REQUIRED",
     consent_status |-> "EXPLICIT_CONSENT",
     data_purpose |-> "BUSINESS_INTELLIGENCE",
     retention_period |-> "7_YEARS",
     phi_classification |-> "NON_PHI",
     encryption_status |-> "AES_256_ENCRYPTED"]

\* Mutant: the audit id derived again from the start time, as execution_id is
FinalResult_StaleAuditId(input, output, compliance_result, start, end) ==
    [status |-> "SUCCESS",
     execution_id |-> input.execution_id,
     processing_time |-> <<end - start, "seconds">>,
     records_processed |-> "1,000,000+ records",
     compliance_status |-> compliance_result.compliance_status,
     performance_metrics |-> [throughput |-> "50MB/sec", memory_usage |-> "25MB peak",
                              cpu_efficiency |-> "92%", cost_per_execution |-> "$0.03"],
     pipeline_output |-> output,
     compliance_report |-> compliance_result,
     audit_trail_id |-> AuditId(start)]

\* The final_result dict, before notification_status is set
FinalResult(input, output, compliance_result, start, end) ==
    [status |-> "SUCCESS",
     execution_id |-> input.execution_id,
     processing_time |-> <<end - start, "seconds">>,
     records_processed |-> "1,000,000+ records",
     compliance_status |-> compliance_result.compliance_status,
     performance_metrics |-> [throughput |-> "50MB/sec", memory_usage |-> "25MB peak",
                              cpu_efficiency |-> "92%", cost_per_execution |-> "$0.03"],
     pipeline_output |-> output,
     compliance_report |-> compliance_result,
     audit_trail_id |-> compliance_result.audit_id]

\* The error_details dict built in the except block
ErrorDetails(e, input, t) ==
    [error_type |-> e.type,
     error_message |-> Str(e),
     execution_id |-> Get(input, "execution_id", "unknown"),
     timestamp |-> t,
     severity |-> Severity(e)]

\* The dict returned from the except block
FailureResult(details) ==
    [status |-> "FAILURE", error_details |-> details, compliance_status |-> "UNKNOWN"]

\* output_variables of the SequentialChain, one per chain
OutputVariables == <<"api_data", "context_docs", "llm_analysis">>

NumStages == Len(OutputVariables)

\* ------------------------------------------------------------- input sets
ComplianceFields ==
    {"data_classification", "access_controls", "audit_trail", "consent_status",
     "data_purpose", "retention_period", "phi_classification", "encryption_status"}

\* The record that holds every compliance field
FullRecord == [k \in ComplianceFields |-> "X"]

\* Records that lack at most MaxMissing of the compliance fields
AbsentRecords ==
    { [k \in ComplianceFields \ absent |-> "X"] :
        absent \in { a \in SUBSET ComplianceFields : Cardinality(a) <= MaxMissing } }

\* Records that hold every compliance field, one of them with the empty string
EmptiedRecords == { [FullRecord EXCEPT ![k] = ""] : k \in ComplianceFields }

\* Arguments tried for validate(data)
Records == AbsentRecords \cup EmptiedRecords

\* Constructor arguments tried for EnterpriseComplianceChain(standards=...)
StandardsArgs ==
    { <<>>, <<"SOX">>, <<"GDPR">>, <<"HIPAA", "GDPR">>,
      <<"SOX", "GDPR", "HIPAA", "PCI_DSS">> }

\* Exceptions a chain of the SequentialChain raises: type(e).__name__, str(e)
StageExceptions ==
    { [type |-> "AuthenticationError", msg |-> MsgAuthCapital],
      [type |-> "TimeoutError", msg |-> MsgTimeout],
      [type |-> "AuthenticationError", msg |-> MsgTokenExpired],
      [type |-> "ValueError", msg |-> MsgAuthUpper],
      [type |-> "ValueError", msg |-> MsgAuthPrefix] }

\* Exceptions a notification channel raises when a dispatch to it fails
ChannelExceptions ==
    { [type |-> "ChannelError", msg |-> MsgSlackDown],
      [type |-> "ChannelError", msg |-> MsgPagerAuth] }

\* Constructor arguments and environment values tried for a channel setting
ChannelArgs == { None, "configured" }
ChannelEnvs == { None, "" }

\* The threads that call compliance_validator.validate concurrently
Threads == 1..NumThreads

\* Records the threads pass to validate
ThreadRecords == { FullRecord, [k \in ComplianceFields \ {"consent_status"} |-> "X"] }

\* Arguments of run_enterprise_pipeline: its defaults and the __main__ call
CallArgs ==
    { <<"enterprise_demo_dataset", "all", "business_intelligence">>,
      <<"enterprise_demo", "all", "investment_analysis">> }

\* ------------------------------------------------------------------ actions
validatorVars == <<standards, audit_trail, data, report>>
configVars == <<slack_webhook, pagerduty_key>>
localVars == <<stage, pipeline_start_time, pipeline_input, pipeline_result, final_result, exc>>
runVars == <<pc, runs, result, outcome, dispatched, trail_at_start, failed_at>>

historyVars == <<returned, invoked, notify_calls, sent>>
threadVars == <<thread_pc, thread_data, thread_result, appended_by>>

missionVars == <<mission_exists, main_pc, mission_index, successful, failed, events>>
demoVars == <<demo_pc, healthy, entered, prompted, user_query, http, printed, exit_status>>
scriptVars == <<missionVars, demoVars>>

vars == <<validatorVars, now, configVars, localVars, runVars, historyVars, threadVars, scriptVars>>

\* The clock advances.
Tick ==
    /\ now < MaxClock
    /\ now' = now + 1
    /\ UNCHANGED <<scriptVars, validatorVars, configVars, localVars, runVars, historyVars, threadVars>>

\* Mutant: the report is returned without being appended to the audit trail
validate_NoAppend(d) ==
    \E t2 \in {now, now + 1} :
        /\ t2 <= MaxClock
        /\ report' = ComplianceResult(standards, d, now, t2)
        /\ audit_trail' = audit_trail
        /\ now' = t2

\* Mutant: the report is inserted at the head of the audit trail
validate_Prepend(d) ==
    \E t2 \in {now, now + 1} :
        /\ t2 <= MaxClock
        /\ report' = ComplianceResult(standards, d, now, t2)
        /\ audit_trail' = <<report'>> \o audit_trail
        /\ now' = t2

\* validate(d): builds the report from two clock reads (the clock may advance
\* between them), appends it to the audit trail and returns it.
validate(d) ==
    \E t2 \in {now, now + 1} :
        /\ t2 <= MaxClock
        /\ report' = ComplianceResult(standards, d, now, t2)
        /\ audit_trail' = Append(audit_trail, report')
        /\ now' = t2

\* Client code calls compliance_validator.validate(d).
ValidateCall ==
    /\ Len(audit_trail) < MaxTrail
    /\ \E d \in Records :
        /\ validate(d)
        /\ data' = d
    /\ returned' = Append(returned, report')
    /\ UNCHANGED <<scriptVars, standards, configVars, localVars, runVars, invoked, notify_calls, sent, threadVars>>

\* The locals of run_enterprise_pipeline are gone once it has ended.
ClearLocals ==
    /\ stage' = 0
    /\ pipeline_start_time' = 0
    /\ pipeline_input' = None
    /\ pipeline_result' = None
    /\ final_result' = None
    /\ exc' = None

\* run_enterprise_pipeline is called: the start time is read, pipeline_input
\* is built and the SequentialChain is entered.
StartRun ==
    /\ pc = "idle"
    /\ runs < MaxRuns
    /\ \E a \in CallArgs :
        pipeline_input' = PipelineInput(a[1], a[2], a[3], now)
    /\ pipeline_start_time' = now
    /\ pipeline_result' = pipeline_input'
    /\ stage' = 1
    /\ pc' = "chain"
    /\ runs' = runs + 1
    /\ result' = None
    /\ outcome' = "none"
    /\ dispatched' = <<>>
    /\ trail_at_start' = audit_trail
    /\ failed_at' = [step |-> "none", stage |-> 0]
    /\ invoked' = <<1>>
    /\ notify_calls' = <<>>
    /\ UNCHANGED <<scriptVars, validatorVars, now, configVars, final_result, exc, returned, sent, threadVars>>

\* The current chain returns: its output variable joins the known values and
\* the next chain runs; after the last one the SequentialChain returns.
StageReturn ==
    /\ pc = "chain"
    /\ pipeline_result' = (OutputVariables[stage] :> <<"output", stage>>) @@ pipeline_result
    /\ IF stage < NumStages
       THEN stage' = stage + 1 /\ pc' = "chain" /\ invoked' = Append(invoked, stage + 1)
       ELSE stage' = stage /\ pc' = "validate" /\ invoked' = invoked
    /\ UNCHANGED <<scriptVars, validatorVars, now, configVars, pipeline_start_time, pipeline_input,
                   final_result, exc, runs, result, outcome, dispatched, trail_at_start,
                   failed_at, returned, notify_calls, sent, threadVars>>

\* Mutant: the chain's exception is swallowed and the run goes on to validation
StageRaise_Swallowed ==
    /\ pc = "chain"
    /\ \E e \in StageExceptions : exc' = e
    /\ pc' = "validate"
    /\ failed_at' = [step |-> "stage", stage |-> stage]
    /\ UNCHANGED <<scriptVars, validatorVars, now, configVars, stage, pipeline_start_time,
                   pipeline_input, pipeline_result, final_result, runs, result, outcome,
                   dispatched, trail_at_start, historyVars, threadVars>>

\* Mutant: the chain that raised is invoked again
StageRaise_Retried ==
    /\ pc = "chain"
    /\ \E e \in StageExceptions : exc' = e
    /\ pc' = IF Len(invoked) < NumStages THEN "chain" ELSE "except"
    /\ invoked' = IF Len(invoked) < NumStages THEN Append(invoked, stage) ELSE invoked
    /\ failed_at' = [step |-> "stage", stage |-> stage]
    /\ UNCHANGED <<scriptVars, validatorVars, now, configVars, stage, pipeline_start_time,
                   pipeline_input, pipeline_result, final_result, runs, result, outcome,
                   dispatched, trail_at_start, returned, notify_calls, sent, threadVars>>

\* The current chain raises: the exception leaves the SequentialChain and is
\* caught by "except Exception as e".
StageRaise ==
    /\ pc = "chain"
    /\ \E e \in StageExceptions : exc' = e
    /\ pc' = "except"
    /\ failed_at' = [step |-> "stage", stage |-> stage]
    /\ UNCHANGED <<scriptVars, validatorVars, now, configVars, stage, pipeline_start_time,
                   pipeline_input, pipeline_result, final_result, runs, result, outcome,
                   dispatched, trail_at_start, historyVars, threadVars>>

\* compliance_validator.validate(pipeline_input), then the end time is read
\* and final_result is compiled.
Validate ==
    /\ pc = "validate"
    /\ validate(pipeline_input)
    /\ data' = pipeline_input
    /\ final_result' = FinalResult(pipeline_input, pipeline_result, report',
                                   pipeline_start_time, now')
    /\ pc' = "notify_success"
    /\ returned' = Append(returned, report')
    /\ UNCHANGED <<scriptVars, standards, configVars, stage, pipeline_start_time, pipeline_input,
                   pipeline_result, exc, runs, result, outcome, dispatched,
                   trail_at_start, failed_at, invoked, notify_calls, sent, threadVars>>

\* notify_success returns; notification_status is set and final_result is
\* returned.
NotifySuccessReturn ==
    /\ pc = "notify_success"
    /\ dispatched' = IF ShouldSlack(slack_webhook)
                     THEN Append(dispatched, SlackMessage(final_result))
                     ELSE dispatched
    /\ result' = ("notification_status" :> notify_success(slack_webhook, final_result))
                     @@ final_result
    /\ outcome' = "returned"
    /\ pc' = "idle"
    /\ ClearLocals
    /\ notify_calls' = Append(notify_calls, "notify_success")
    /\ UNCHANGED <<scriptVars, validatorVars, now, configVars, runs, trail_at_start, failed_at,
                   returned, invoked, sent, threadVars>>

\* The dispatch to the Slack channel fails inside notify_success: the call is
\* inside the try block, so the exception is caught by "except Exception".
NotifySuccessRaise ==
    /\ pc = "notify_success"
    /\ ShouldSlack(slack_webhook)
    /\ \E e \in ChannelExceptions : exc' = e
    /\ pc' = "except"
    /\ failed_at' = [step |-> "notify_success", stage |-> 0]
    /\ notify_calls' = Append(notify_calls, "notify_success")
    /\ UNCHANGED <<scriptVars, validatorVars, now, configVars, stage, pipeline_start_time,
                   pipeline_input, pipeline_result, final_result, runs, result, outcome,
                   dispatched, trail_at_start, returned, invoked, sent, threadVars>>

\* The except block: error_details is built, notify_failure returns and the
\* FAILURE dict is returned.
HandleFailureReturn ==
    /\ pc = "except"
    /\ LET details == ErrorDetails(exc, pipeline_input, now)
       IN  /\ dispatched' = IF ShouldPage(pagerduty_key, details)
                            THEN Append(dispatched, PagerdutyPayload(pagerduty_key, details))
                            ELSE dispatched
           /\ result' = FailureResult(details)
    /\ outcome' = "returned"
    /\ pc' = "idle"
    /\ ClearLocals
    /\ notify_calls' = Append(notify_calls, "notify_failure")
    /\ UNCHANGED <<scriptVars, validatorVars, now, configVars, runs, trail_at_start, failed_at,
                   returned, invoked, sent, threadVars>>

\* The except block: error_details is built and the dispatch to PagerDuty
\* fails inside notify_failure. Nothing encloses the call, so the exception
\* leaves run_enterprise_pipeline.
HandleFailureRaise ==
    /\ pc = "except"
    /\ ShouldPage(pagerduty_key, ErrorDetails(exc, pipeline_input, now))
    /\ \E e \in ChannelExceptions : exc' = e
    /\ outcome' = "raised"
    /\ pc' = "idle"
    /\ stage' = 0
    /\ pipeline_start_time' = 0
    /\ pipeline_input' = None
    /\ pipeline_result' = None
    /\ final_result' = None
    /\ notify_calls' = Append(notify_calls, "notify_failure")
    /\ UNCHANGED <<scriptVars, validatorVars, now, configVars, runs, result, dispatched,
                   trail_at_start, failed_at, returned, invoked, sent, threadVars>>

\* ------------------------------------------------- validate called by threads
\* Thread t calls compliance_validator.validate(d).
ThreadCall(t) ==
    /\ thread_pc[t] = "ready"
    /\ \E d \in ThreadRecords : thread_data' = [thread_data EXCEPT ![t] = d]
    /\ thread_pc' = [thread_pc EXCEPT ![t] = "build"]
    /\ UNCHANGED <<scriptVars, validatorVars, now, configVars, localVars, runVars, historyVars,
                   thread_result, appended_by>>

\* Thread t builds its local compliance_result: the two clock reads and the
\* checks of the configured standards touch nothing another thread writes.
ThreadBuild(t) ==
    /\ thread_pc[t] = "build"
    /\ \E t2 \in {now, now + 1} :
        /\ t2 <= MaxClock
        /\ thread_result' = [thread_result EXCEPT
                                ![t] = ComplianceResult(standards, thread_data[t], now, t2)]
        /\ now' = t2
    /\ thread_pc' = [thread_pc EXCEPT ![t] = "append"]
    /\ UNCHANGED <<scriptVars, validatorVars, configVars, localVars, runVars, historyVars,
                   thread_data, appended_by>>

\* Mutant: the append done as a read of the list's length and a store at that
\* index, so that it lands on the slot a concurrent append has just filled
ThreadAppend_LostUpdate(t) ==
    /\ thread_pc[t] = "append"
    /\ audit_trail' = IF audit_trail = <<>>
                      THEN <<thread_result[t]>>
                      ELSE [audit_trail EXCEPT ![Len(audit_trail)] = thread_result[t]]
    /\ appended_by' = Append(appended_by, t)
    /\ thread_pc' = [thread_pc EXCEPT ![t] = "done"]
    /\ UNCHANGED <<scriptVars, standards, data, report, now, configVars, localVars, runVars,
                   historyVars, thread_data, thread_result>>

\* Thread t runs self.audit_trail.append(compliance_result), one indivisible
\* list operation of the interpreter, and returns.
ThreadAppend(t) ==
    /\ thread_pc[t] = "append"
    /\ audit_trail' = Append(audit_trail, thread_result[t])
    /\ appended_by' = Append(appended_by, t)
    /\ thread_pc' = [thread_pc EXCEPT ![t] = "done"]
    /\ UNCHANGED <<scriptVars, standards, data, report, now, configVars, localVars, runVars,
                   historyVars, thread_data, thread_result>>

\* ----------------------------------------------------------- specifications
InitRun ==
    /\ pc = "idle"
    /\ runs = 0
    /\ stage = 0
    /\ pipeline_start_time = 0
    /\ pipeline_input = None
    /\ pipeline_result = None
    /\ final_result = None
    /\ exc = None
    /\ result = None
    /\ outcome = "none"
    /\ dispatched = <<>>
    /\ trail_at_start = <<>>
    /\ failed_at = [step |-> "none", stage |-> 0]
    /\ returned = <<>>
    /\ invoked = <<>>
    /\ notify_calls = <<>>
    /\ sent = <<>>

InitThreads ==
    /\ thread_pc = [t \in Threads |-> "ready"]
    /\ thread_data = [t \in Threads |-> None]
    /\ thread_result = [t \in Threads |-> None]
    /\ appended_by = <<>>

\* execute_coverage_missions.py before main is called
InitMain ==
    /\ main_pc = "ready"
    /\ mission_index = 0
    /\ successful = 0
    /\ failed = 0
    /\ events = <<>>

\* chat_with_shimmy.py before run_demo is called
InitRunDemo ==
    /\ demo_pc = "ready"
    /\ healthy = FALSE
    /\ entered = FALSE
    /\ prompted = FALSE
    /\ user_query = <<>>
    /\ http = <<>>
    /\ printed = "none"
    /\ exit_status = -1

\* The two scripts are separate programs: not started where the pipeline
\* module is the program under study.
InitScripts ==
    /\ mission_exists = [i \in 1..NumMissions |-> FALSE]
    /\ InitMain
    /\ InitRunDemo

\* EnterpriseComplianceChain(standards=a) for several a; no pipeline run.
InitValidator ==
    /\ standards \in { ComplianceInit(a) : a \in StandardsArgs }
    /\ audit_trail = <<>>
    /\ now = 0
    /\ data = None
    /\ report = None
    /\ slack_webhook = None
    /\ pagerduty_key = None
    /\ InitRun
    /\ InitThreads
    /\ InitScripts

NextValidator ==
    \/ Tick
    \/ ValidateCall

SpecValidator == InitValidator /\ [][NextValidator]_vars

\* The module's globals: compliance_validator with the four standards and a
\* notification_system whose channels come from arguments or the environment.
Init ==
    /\ standards = ComplianceInit(<<"SOX", "GDPR", "HIPAA", "PCI_DSS">>)
    /\ audit_trail = <<>>
    /\ now = 0
    /\ data = None
    /\ report = None
    /\ slack_webhook \in { NotificationInit(a, e) : a \in ChannelArgs, e \in ChannelEnvs }
    /\ pagerduty_key \in { NotificationInit(a, e) : a \in ChannelArgs, e \in ChannelEnvs }
    /\ InitRun
    /\ InitThreads
    /\ InitScripts

Next ==
    \/ Tick
    \/ StartRun
    \/ StageReturn
    \/ StageRaise
    \/ Validate
    \/ NotifySuccessReturn
    \/ NotifySuccessRaise
    \/ HandleFailureReturn
    \/ HandleFailureRaise

Spec == Init /\ [][Next]_vars

\* Threads calling validate on the module's compliance_validator.
NextConcurrent ==
    \/ Tick
    \/ \E t \in Threads : ThreadCall(t)
    \/ \E t \in Threads : ThreadBuild(t)
    \/ \E t \in Threads : ThreadAppend(t)

\* The shared compliance_validator as the module constructs it
InitConcurrent == InitValidator /\ standards = DefaultStandards

SpecConcurrent == InitConcurrent /\ [][NextConcurrent]_vars

\* The pipeline module imported by nobody: its variables at their initial
\* values, left alone by the scripts below.
InitPipelineIdle ==
    /\ standards = DefaultStandards
    /\ audit_trail = <<>>
    /\ now = 0
    /\ data = None
    /\ report = None
    /\ slack_webhook = None
    /\ pagerduty_key = None
    /\ InitRun
    /\ InitThreads

\* ---------------------------------------------- execute_coverage_missions.py
\* Exit codes of the "cargo run ... run <mission>" child process
ReturnCodes == {0, 1, 101}

\* execute_mission returns result.returncode == 0 as its first component
execute_mission(returncode) == returncode = 0

Event(op, i) == [op |-> op, mission |-> i]

\* main starts: both counters at 0, the for loop at the first mission
MainStart ==
    /\ main_pc = "ready"
    /\ main_pc' = "loop"
    /\ successful' = 0
    /\ failed' = 0
    /\ mission_index' = 1
    /\ UNCHANGED <<validatorVars, now, configVars, localVars, runVars, historyVars,
                   threadVars, demoVars, mission_exists, events>>

\* The mission file does not exist: SKIP is printed and the loop continues
MissionSkip ==
    /\ main_pc = "loop"
    /\ mission_index <= NumMissions
    /\ ~mission_exists[mission_index]
    /\ events' = Append(events, Event("skip", mission_index))
    /\ mission_index' = mission_index + 1
    /\ UNCHANGED <<validatorVars, now, configVars, localVars, runVars, historyVars,
                   threadVars, demoVars, mission_exists, main_pc, successful, failed>>

\* Mutant: the loop is left at the first mission that fails
RunMission_StopsOnFailure ==
    /\ main_pc = "loop"
    /\ mission_index <= NumMissions
    /\ mission_exists[mission_index]
    /\ events' = Append(events, Event("execute", mission_index))
    /\ \E returncode \in ReturnCodes :
          IF execute_mission(returncode)
          THEN /\ successful' = successful + 1
               /\ failed' = failed
               /\ mission_index' = mission_index + 1
          ELSE /\ failed' = failed + 1
               /\ successful' = successful
               /\ mission_index' = NumMissions + 1
    /\ UNCHANGED <<validatorVars, now, configVars, localVars, runVars, historyVars,
                   threadVars, demoVars, mission_exists, main_pc>>

\* The mission file exists: the child process runs to its end, the counter
\* of its outcome is incremented, main sleeps and the loop continues
RunMission ==
    /\ main_pc = "loop"
    /\ mission_index <= NumMissions
    /\ mission_exists[mission_index]
    /\ events' = Append(events, Event("execute", mission_index))
    /\ \E returncode \in ReturnCodes :
          IF execute_mission(returncode)
          THEN /\ successful' = successful + 1
               /\ failed' = failed
          ELSE /\ failed' = failed + 1
               /\ successful' = successful
    /\ mission_index' = mission_index + 1
    /\ UNCHANGED <<validatorVars, now, configVars, localVars, runVars, historyVars,
                   threadVars, demoVars, mission_exists, main_pc>>

\* subprocess.run cannot start the child (no cargo on the PATH): the OSError
\* is caught nowhere and ends main
RunMissionLaunchError ==
    /\ main_pc = "loop"
    /\ mission_index <= NumMissions
    /\ mission_exists[mission_index]
    /\ main_pc' = "raised"
    /\ UNCHANGED <<validatorVars, now, configVars, localVars, runVars, historyVars,
                   threadVars, demoVars, mission_exists, mission_index, successful,
                   failed, events>>

\* The loop is over: the totals are printed, the report generator is run
\* and main returns
GenerateReport ==
    /\ main_pc = "loop"
    /\ mission_index > NumMissions
    /\ events' = Append(events, Event("report", 0))
    /\ main_pc' = "done"
    /\ UNCHANGED <<validatorVars, now, configVars, localVars, runVars, historyVars,
                   threadVars, demoVars, mission_exists, mission_index, successful, failed>>

\* The files of the missions directory as main finds them
InitMissions ==
    /\ InitPipelineIdle
    /\ mission_exists \in [1..NumMissions -> BOOLEAN]
    /\ InitMain
    /\ InitRunDemo

NextMissions ==
    \/ MainStart
    \/ MissionSkip
    \/ RunMission
    \/ RunMissionLaunchError
    \/ GenerateReport

SpecMissions == InitMissions /\ [][NextMissions]_vars

\* ------------------------------------------------ gif_demo/chat_with_shimmy.py
HealthUrl == "http://localhost:11435/health"
ChatUrl == "http://localhost:11435/v1/chat/completions"

\* What requests.get can end with: a response with a status code, or a
\* RequestException (connection refused, timeout)
HealthOutcomes ==
    { [kind |-> "response", status_code |-> c] : c \in {200, 503} }
        \cup { [kind |-> "RequestException", status_code |-> 0] }

\* check_shimmy_health: r.status_code == 200, False on a RequestException
check_shimmy_health(r) == r.kind = "response" /\ r.status_code = 200

\* Characters of the line the user types; str.strip() removes the first two
Whitespace == {" ", "\t"}
InputChars == Whitespace \cup {"a", "?"}
Inputs == UNION { [1..n -> InputChars] : n \in 0..MaxInput }

RECURSIVE LStrip(_)
LStrip(q) ==
    IF q = <<>> THEN <<>>
    ELSE IF Head(q) \in Whitespace THEN LStrip(Tail(q)) ELSE q

RECURSIVE RStrip(_)
RStrip(q) ==
    IF q = <<>> THEN <<>>
    ELSE IF q[Len(q)] \in Whitespace THEN RStrip(SubSeq(q, 1, Len(q) - 1)) ELSE q

\* str.strip()
Strip(q) == RStrip(LStrip(q))

\* Mutant: the test written "if not user_query:"
IsBlank_NoStrip(q) == q = <<>>

\* not user_query.strip()
IsBlank(q) == Strip(q) = <<>>

\* Exceptions chat_with_llm can raise: raise_for_status, the post itself,
\* the indexing of the decoded body
ChatExceptions == {"HTTPError", "ConnectionError", "KeyError"}

Request(method, url, content) == [method |-> method, url |-> url, content |-> content]

\* run_demo up to input(): the health check, and sys.exit(1) when it fails
HealthCheck ==
    /\ demo_pc = "ready"
    /\ http' = Append(http, Request("GET", HealthUrl, <<>>))
    /\ \E r \in HealthOutcomes :
          /\ healthy' = check_shimmy_health(r)
          /\ IF healthy'
             THEN demo_pc' = "input" /\ exit_status' = exit_status
             ELSE demo_pc' = "exited" /\ exit_status' = 1
    /\ UNCHANGED <<validatorVars, now, configVars, localVars, runVars, historyVars,
                   threadVars, missionVars, entered, prompted, user_query, printed>>

\* input() returns a line; a blank one ends run_demo with a plain return
ReadInput ==
    /\ demo_pc = "input"
    /\ prompted' = TRUE
    /\ entered' = TRUE
    /\ \E q \in Inputs :
          /\ user_query' = q
          /\ IF IsBlank(q)
             THEN demo_pc' = "exited" /\ exit_status' = 0
             ELSE demo_pc' = "chat" /\ exit_status' = exit_status
    /\ UNCHANGED <<validatorVars, now, configVars, localVars, runVars, historyVars,
                   threadVars, missionVars, healthy, http, printed>>

\* input() meets the end of standard input: the EOFError is caught nowhere
InputEOF ==
    /\ demo_pc = "input"
    /\ prompted' = TRUE
    /\ demo_pc' = "exited"
    /\ exit_status' = 1
    /\ UNCHANGED <<validatorVars, now, configVars, localVars, runVars, historyVars,
                   threadVars, missionVars, healthy, entered, user_query, http, printed>>

\* chat_with_llm posts the query and returns the answer, which is printed
ChatReturns ==
    /\ demo_pc = "chat"
    /\ http' = Append(http, Request("POST", ChatUrl, user_query))
    /\ printed' = "response"
    /\ demo_pc' = "exited"
    /\ exit_status' = 0
    /\ UNCHANGED <<validatorVars, now, configVars, localVars, runVars, historyVars,
                   threadVars, missionVars, healthy, entered, prompted, user_query>>

\* chat_with_llm posts the query and raises: either except clause prints the
\* error and run_demo goes on to its last print
ChatRaises ==
    /\ demo_pc = "chat"
    /\ http' = Append(http, Request("POST", ChatUrl, user_query))
    /\ \E e \in ChatExceptions :
          printed' = IF e = "HTTPError" THEN "http error" ELSE "unexpected error"
    /\ demo_pc' = "exited"
    /\ exit_status' = 0
    /\ UNCHANGED <<validatorVars, now, configVars, localVars, runVars, historyVars,
                   threadVars, missionVars, healthy, entered, prompted, user_query>>

InitDemo ==
    /\ InitPipelineIdle
    /\ InitScripts

NextDemo ==
    \/ HealthCheck
    \/ ReadInput
    \/ InputEOF
    \/ ChatReturns
    \/ ChatRaises

SpecDemo == InitDemo /\ [][NextDemo]_vars

\* ======================================================= claims: validator
\* Required keys of the standards for which validate has a predicate.
RequiredKeys ==
    [SOX |-> {"data_classification", "access_controls", "audit_trail"},
     GDPR |-> {"consent_status", "data_purpose", "retention_period"},
     HIPAA |-> {"phi_classification", "encryption_status", "access_controls"}]

StatusKey ==
    [SOX |-> "sox_status", GDPR |-> "gdpr_status", HIPAA |-> "hipaa_status",
     PCI_DSS |-> "pci_dss_status"]

ViolationText ==
    [SOX |-> "SOX violation detected", GDPR |-> "GDPR violation detected",
     HIPAA |-> "HIPAA violation detected", PCI_DSS |-> "PCI_DSS violation detected"]

\* The configured standards that have a required-key predicate.
Configured == { standards[i] : i \in 1..Len(standards) } \cap DOMAIN RequiredKeys

MissingKey(S, d) == \E k \in RequiredKeys[S] : k \notin DOMAIN d

Occurrences(x, list) == Cardinality({ i \in 1..Len(list) : list[i] = x })

\* validate has been called: data and report hold its argument and its result.
Called == audit_trail /= <<>>

\* C1: every report in the audit trail has compliance_status FAILED when at
\* least one checked standard failed and PASSED otherwise: its violations
\* list is non-empty if and only if its compliance_status is not PASSED.
C1_StatusMatchesViolations ==
    \A i \in 1..Len(audit_trail) :
        LET r == audit_trail[i]
        IN  /\ r.violations /= <<>> => r.compliance_status = "FAILED"
            /\ r.violations = <<>> => r.compliance_status = "PASSED"

C3_FullRecordPasses ==
    (Called /\ \A S \in Configured : ~MissingKey(S, data)) =>
        /\ report.compliance_status = "PASSED"
        /\ report.violations = <<>>

\* C3 witness: the default configuration validated a record with all fields.
C3_Witness ==
    /\ Called
    /\ standards = DefaultStandards
    /\ DOMAIN data = ComplianceFields
    /\ report.compliance_status = "PASSED"
    /\ report.violations = <<>>
    /\ audit_trail[Len(audit_trail)] = report

\* C4: every standard listed in a report's standards_checked was evaluated:
\* the report carries a pass outcome (its status key) or a fail outcome (a
\* violation naming it) for that standard.
C4_EveryListedStandardHasOutcome ==
    \A i \in 1..Len(audit_trail) :
        LET r == audit_trail[i]
        IN  \A j \in 1..Len(r.standards_checked) :
                LET S == r.standards_checked[j]
                IN  \/ StatusKey[S] \in DOMAIN r
                    \/ InList(ViolationText[S], r.violations)

\* C11: after any sequence of validate calls the audit trail is the sequence
\* of the reports those calls returned, in call order: each call adds its
\* report at the end and earlier entries stay as they are.
C11_TrailIsReturnedReports ==
    audit_trail = returned

\* C11 witness: two calls returned different reports, and the trail holds
\* the first one before the second.
C11_Witness ==
    /\ Len(returned) = 2
    /\ returned[1] /= returned[2]
    /\ audit_trail[1] = returned[1]
    /\ audit_trail[2] = report

\* C14: no two reports in the audit trail have the same audit_id, also when
\* they were created within the same clock second.
C14_AuditIdsUnique ==
    \A i, j \in 1..Len(audit_trail) :
        i /= j => audit_trail[i].audit_id /= audit_trail[j].audit_id

\* C16: after validate(data) on a record that holds a required key of a
\* configured standard S with an empty value, the report has a violation
\* for S.
C16_EmptyValueIsViolation ==
    Called =>
        \A S \in Configured :
            (\E k \in RequiredKeys[S] : k \in DOMAIN data /\ data[k] = "")
                => InList(ViolationText[S], report.violations)

\* C12: when the threads validate concurrently, every append that has run
\* left one complete report in the audit trail, in the order of the appends;
\* once all threads are done the trail holds the report of each exactly once.
C12_ConcurrentAppendsAllKept ==
    /\ Len(audit_trail) = Len(appended_by)
    /\ \A i \in 1..Len(appended_by) : audit_trail[i] = thread_result[appended_by[i]]
    /\ \A t \in Threads :
          Cardinality({ i \in 1..Len(appended_by) : appended_by[i] = t })
              = IF thread_pc[t] = "done" THEN 1 ELSE 0

\* C12 witness: all threads are done, their calls overlapped (the thread that
\* appended first is not thread 1) and two reports differ.
C12_Witness ==
    /\ \A t \in Threads : thread_pc[t] = "done"
    /\ Len(audit_trail) = NumThreads
    /\ appended_by[1] /= 1
    /\ audit_trail[1] /= audit_trail[2]

\* ======================================================== claims: pipeline
\* The latest call of run_enterprise_pipeline returned a FAILURE result.
ReturnedFailure == outcome = "returned" /\ result.status = "FAILURE"

ReturnedSuccess == outcome = "returned" /\ result.status = "SUCCESS"

Paged == \E i \in 1..Len(dispatched) : dispatched[i].channel = "pagerduty"

\* a and b are the same letter, whatever their case
SameLetter(a, b) ==
    \/ a = b
    \/ a \in DOMAIN UpperToLower /\ UpperToLower[a] = b
    \/ b \in DOMAIN UpperToLower /\ UpperToLower[b] = a

\* needle occurs in hay, compared letter by letter without regard to case
ContainsIgnoreCase(needle, hay) ==
    \E i \in 1..(Len(hay) - Len(needle) + 1) :
        \A j \in 1..Len(needle) : SameLetter(hay[i + j - 1], needle[j])

\* Failure details of other severities, and without one, handed to
\* notify_failure by a caller other than run_enterprise_pipeline.
OtherFailureDetails ==
    { [severity |-> "high"], [severity |-> "low"], [severity |-> "CRITICAL"],
      [severity |-> None], [error_type |-> "ValueError"] }

\* C5: a paging alert is dispatched only when a paging channel is configured
\* and the failure detail's severity is critical; a run that failed with
\* another severity, or with no paging channel configured, pages nobody.
C5_PagesOnlyCriticalConfigured ==
    /\ \A i \in 1..Len(dispatched) :
          dispatched[i].channel = "pagerduty" =>
              /\ pagerduty_key \notin {None, ""}
              /\ dispatched[i].custom_details.severity = "critical"
    /\ (ReturnedFailure /\ (pagerduty_key \in {None, ""}
                              \/ result.error_details.severity /= "critical"))
          => ~Paged
    /\ \A details \in OtherFailureDetails :
          notify_failure(pagerduty_key, details).notifications_sent = <<>>

\* C5 witness: a run failed with severity high while a paging channel is
\* configured, and returned without paging.
C5_Witness ==
    /\ ReturnedFailure
    /\ pagerduty_key = "configured"
    /\ result.error_details.severity = "high"
    /\ ~Paged

\* C6: the severity of every failure detail is critical if the error message
\* contains "authentication" in any letter case, and high otherwise.
C6_SeverityByAuthentication ==
    ReturnedFailure =>
        LET d == result.error_details
        IN  /\ d.severity \in {"critical", "high"}
            /\ d.severity = "critical" <=> ContainsIgnoreCase(Needle, d.error_message)

\* C6 witness: a failure whose message spells "Authentication" with a capital
\* was classified critical.
C6_Witness ==
    /\ ReturnedFailure
    /\ result.error_details.error_message = MsgAuthCapital
    /\ result.error_details.severity = "critical"

\* C7: in a run in which a stage failed, nothing is appended to the audit
\* trail (validate, which appends every report it creates, is not called).
C7_StageFailureNoReport ==
    failed_at.step = "stage" => audit_trail = trail_at_start

\* C7 witness: after a run that appended its report, a second run failed in
\* stage 2 and returned FAILURE, the trail still holding that one report.
C7_Witness ==
    /\ ReturnedFailure
    /\ failed_at = [step |-> "stage", stage |-> 2]
    /\ Len(audit_trail) = 1
    /\ audit_trail = trail_at_start

RunReportInTrail == audit_trail = Append(trail_at_start, report)

SlackDispatched == \E i \in 1..Len(dispatched) : dispatched[i].channel = "slack"

\* C13: in a run whose stages all succeeded the report is created and
\* appended to the audit trail before the success notification: whenever
\* notify_success is about to be called, has been called or has dispatched,
\* that run's report is already in the trail.
C13_ReportBeforeSuccessNotification ==
    (pc = "notify_success" \/ InList("notify_success", notify_calls) \/ SlackDispatched)
        => RunReportInTrail

\* C13 witness: a second run returned SUCCESS with its Slack message
\* dispatched and its report the second entry of the trail.
C13_Witness ==
    /\ ReturnedSuccess
    /\ SlackDispatched
    /\ notify_calls = <<"notify_success">>
    /\ Len(audit_trail) = 2
    /\ audit_trail[2] = report

\* C15: in a successful run the record passed to validate is the combined
\* execution context: the initial input together with the output of every
\* stage.
C15_ValidatedRecordIsCombinedContext ==
    /\ pc = "notify_success" => data = pipeline_result
    /\ ReturnedSuccess => data = result.pipeline_output

\* C17: the stages of a run are invoked one after another in the configured
\* order, each at most once; after a stage fails no stage is invoked (the
\* failed one included) and the run is in its failure handling or ended.
C17_StagesInOrderStopAtFailure ==
    /\ Len(invoked) <= NumStages
    /\ \A i \in 1..Len(invoked) : invoked[i] = i
    /\ pc = "chain" => stage = Len(invoked)
    /\ failed_at.step = "stage" =>
          /\ Len(invoked) = failed_at.stage
          /\ pc \in {"except", "idle"}

\* C17 witness: a run whose stage 2 failed returned FAILURE having invoked
\* stages 1 and 2 only, and went to the failure notification.
C17_Witness ==
    /\ ReturnedFailure
    /\ failed_at = [step |-> "stage", stage |-> 2]
    /\ invoked = <<1, 2>>
    /\ notify_calls = <<"notify_failure">>

\* C18: every channel named in the notifications_sent list that
\* notify_success returned had a message sent to it during the call, and
\* "slack" is in the list if and only if a Slack webhook is configured.
C18_NotifiedChannelsWereSent ==
    ReturnedSuccess =>
        LET ns == result.notification_status.notifications_sent
        IN  /\ \A i \in 1..Len(ns) : \E j \in 1..Len(sent) : sent[j].channel = ns[i]
            /\ InList("slack", ns) <=> slack_webhook \notin {None, ""}

C20_ResultMatchesRun ==
    /\ ReturnedSuccess =>
          /\ audit_trail = Append(trail_at_start, result.compliance_report)
          /\ result.compliance_status = result.compliance_report.compliance_status
          /\ result.audit_trail_id = result.compliance_report.audit_id
    /\ ReturnedFailure =>
          /\ result.compliance_status = "UNKNOWN"
          /\ "compliance_report" \notin DOMAIN result

\* C20 witness: a second run returned SUCCESS with the audit id of its own
\* report, which differs from the audit id of the first run's report.
C20_Witness ==
    /\ ReturnedSuccess
    /\ Len(audit_trail) = 2
    /\ result.audit_trail_id = audit_trail[2].audit_id
    /\ result.audit_trail_id /= audit_trail[1].audit_id

\* =============================================== claims: coverage missions
ExistingMissions == { m \in 1..NumMissions : mission_exists[m] }

EventsOf(op) == { i \in 1..Len(events) : events[i].op = op }

\* C21: main handles the missions in list order, each at most once, executes
\* only missions whose file exists and skips only missing ones, counts
\* exactly the executed ones, and goes on after a failed mission; when main
\* has finished every existing mission has been executed exactly once,
\* every missing one skipped, successful + failed is the number of existing
\* missions, and the report generator has run exactly once, as the last
\* thing.
C21_AllMissionsThenReport ==
    /\ \A i, j \in EventsOf("execute") \cup EventsOf("skip") :
          i < j => events[i].mission < events[j].mission
    /\ \A i \in EventsOf("execute") : events[i].mission \in ExistingMissions
    /\ \A i \in EventsOf("skip") : events[i].mission \notin ExistingMissions
    /\ successful + failed = Cardinality(EventsOf("execute"))
    /\ main_pc /= "done" => EventsOf("report") = {}
    /\ main_pc = "done" =>
          /\ \A m \in 1..NumMissions :
                Cardinality({ i \in 1..Len(events) : events[i].mission = m }) = 1
          /\ successful + failed = Cardinality(ExistingMissions)
          /\ EventsOf("report") = {Len(events)}

\* C21 witness: main finished a list in which a mission failed, a later one
\* was executed and succeeded, and one was missing.
C21_Witness ==
    /\ main_pc = "done"
    /\ failed = 1
    /\ successful = 1
    /\ mission_exists = <<TRUE, FALSE, TRUE>> \o [i \in 1..(NumMissions - 3) |-> FALSE]
    /\ events[Len(events)] = Event("report", 0)

\* ======================================================= claims: chat demo
ChatRequests == { i \in 1..Len(http) : http[i].url = ChatUrl }

AllWhitespace(q) == \A i \in 1..Len(q) : q[i] \in {" ", "\t"}

\* C22: a chat completion request is made only after the health check
\* succeeded and the user entered a line that is not blank; when the health
\* check fails the program has exited with status 1 without prompting and
\* without a chat request; a blank line ends the demo normally without a
\* chat request.
C22_ChatOnlyAfterHealthAndInput ==
    /\ \A i \in ChatRequests :
          /\ i > 1
          /\ http[1].url = HealthUrl
          /\ healthy
          /\ entered
          /\ ~AllWhitespace(user_query)
          /\ http[i].content = user_query
    /\ (http /= <<>> /\ ~healthy) =>
          /\ demo_pc = "exited"
          /\ exit_status = 1
          /\ ~prompted
          /\ ChatRequests = {}
    /\ (entered /\ AllWhitespace(user_query)) =>
          /\ demo_pc = "exited"
          /\ exit_status = 0
          /\ ChatRequests = {}

\* C22 witness: after a successful health check the user entered a line
\* with blanks around a letter, and exactly one chat request was made.
C22_Witness ==
    /\ demo_pc = "exited"
    /\ healthy
    /\ user_query = <<" ", "a", "\t">>
    /\ Cardinality(ChatRequests) = 1
    /\ http[2].url = ChatUrl

====
